---------------------------- MODULE Spec2Model ----------------------------
(***************************************************************************)
(* State-machine model of the GBPUSD trade viewer: src/StreamLit.py (main  *)
(* and its helpers) and src/helpers.py (parsing, candle alignment, hedge   *)
(* collapsing, signal grouping and the per-signal / per-day aggregations). *)
(*                                                                         *)
(* Representation.                                                         *)
(*  - A str is a sequence of one-character strings.                        *)
(*  - A DataFrame is a sequence of rows; a row is a function from column   *)
(*    names to values, with the extra key "idx" holding the index label.   *)
(*  - A timestamp of a trade is an integer number of minutes since the     *)
(*    midnight of day 0; prices and profits are integers (exact            *)
(*    arithmetic stands for the floats of the program).                    *)
(*  - A missing cell (NaN / NaT / None) is the value NaN.                  *)
(***************************************************************************)
EXTENDS Integers, Sequences, FiniteSets, TLC

VARIABLES
    pc,                   \* position of main (or of the function under study)
    trade_numbers_input,  \* StreamLit.py:82  the text the user typed
    trade_numbers,        \* StreamLit.py:86-87
    all_trade_data_df,    \* StreamLit.py:107
    trade_data_dfs,       \* StreamLit.py:108
    input_settings,       \* StreamLit.py:116
    arg_df,               \* the table handed to the last table-to-table call
    trade_agg_data,       \* StreamLit.py:118-123
    results,              \* the metric tables and scalars main computes
    rendered,             \* what streamlit was asked to show, in order
    tf_ohlc_data,         \* StreamLit.py:115
    dt,                   \* helpers.py:59  argument of align_datetime_to_candle
    timeframe,            \* helpers.py:59  argument of align_datetime_to_candle
    aligned               \* results of align_datetime_to_candle

vars == <<pc, trade_numbers_input, trade_numbers, all_trade_data_df,
          trade_data_dfs, input_settings, arg_df, trade_agg_data, results,
          rendered, tf_ohlc_data, dt, timeframe, aligned>>

\* a missing cell (NaN, NaT, None): a value no timestamp, price, volume or
\* profit of the model takes
NaN == -(10 ^ 6)

-----------------------------------------------------------------------------
(* Bounds of the model.                                                    *)

\* number of comma-separated parts of the typed text
MaxParts == 2
\* number of rows of a trade table handed to a function
MaxTrades == 3
\* last day on which a trade opens or closes
MaxDay == 1
\* largest trade number in the trade file
MaxId == 2
\* number of rows of the trade file read by a whole run of main
MaxFileRows == 2
\* last day of the timestamps handed to align_datetime_to_candle
MaxAlignDay == 1
\* number of rows of a trade table handed to calculate_max_pip_drawdown
MaxSignalTrades == 2
\* last minute at which the candle series may hold a candle
MaxCandleTime == 1

-----------------------------------------------------------------------------
(* Generic helpers on sequences and sets.                                  *)

Range(s) == {s[i] : i \in DOMAIN s}

RECURSIVE SumSeq(_)
SumSeq(s) == IF s = <<>> THEN 0 ELSE Head(s) + SumSeq(Tail(s))

RECURSIVE Flatten(_)
Flatten(ss) == IF ss = <<>> THEN <<>> ELSE Head(ss) \o Flatten(Tail(ss))

\* the permutations of 1..n, as functions position -> position
Perms(n) == {p \in [1..n -> 1..n] : \A i, j \in 1..n : i # j => p[i] # p[j]}

Min(S) == CHOOSE x \in S : \A y \in S : x <= y
Max(S) == CHOOSE x \in S : \A y \in S : y <= x

\* sorted(set(xs)) of a list of integers
RECURSIVE SortedSet(_)
SortedSet(S) == IF S = {} THEN <<>> ELSE <<Min(S)>> \o SortedSet(S \ {Min(S)})

-----------------------------------------------------------------------------
(* str operations used by parse_trade_number_input.                        *)

Digits == {"0", "1", "2", "3", "4", "5", "6", "7", "8", "9"}

DigitVal(c) ==
    CASE c = "0" -> 0 [] c = "1" -> 1 [] c = "2" -> 2 [] c = "3" -> 3
      [] c = "4" -> 4 [] c = "5" -> 5 [] c = "6" -> 6 [] c = "7" -> 7
      [] c = "8" -> 8 [] c = "9" -> 9

\* str.split(sep) for a one-character separator: always at least one piece
RECURSIVE Split(_, _)
Split(s, sep) ==
    IF s = <<>> THEN << <<>> >>
    ELSE LET rest == Split(Tail(s), sep)
         IN IF Head(s) = sep THEN << <<>> >> \o rest
            ELSE << <<Head(s)>> \o Head(rest) >> \o Tail(rest)

RECURSIVE LStrip(_)
LStrip(s) == IF s # <<>> /\ Head(s) = " " THEN LStrip(Tail(s)) ELSE s

RECURSIVE RStrip(_)
RStrip(s) ==
    IF s # <<>> /\ s[Len(s)] = " " THEN RStrip(SubSeq(s, 1, Len(s) - 1)) ELSE s

\* str.strip() (of blanks, the only white space of the model's alphabet)
Strip(s) == RStrip(LStrip(s))

\* int(s) succeeds: white space around the literal is ignored, the literal is
\* a non-empty run of decimal digits (the pieces main hands to int never hold
\* a sign: '-' is the range separator and '+' is not in the model's alphabet)
IntOk(s) == Strip(s) # <<>> /\ \A i \in DOMAIN Strip(s) : Strip(s)[i] \in Digits

RECURSIVE DecVal(_)
DecVal(s) ==
    IF s = <<>> THEN 0 ELSE 10 * DecVal(SubSeq(s, 1, Len(s) - 1)) + DigitVal(s[Len(s)])

\* int(s) when it succeeds
IntOf(s) == DecVal(Strip(s))

\* list(range(a, b + 1))
RangeList(a, b) == [i \in 1..(b - a + 1) |-> a + i - 1]

\* the outcome of a call: a returned value or a raised ValueError
Returned(v) == [raised |-> FALSE, value |-> v]
ValueError == [raised |-> TRUE, value |-> <<>>]

\* the loop body without the comparison of the two ends of a range
ParsePartUnordered(part) ==
    IF "-" \in Range(part)
    THEN LET pieces == Split(part, "-")
         IN IF Len(pieces) # 2 \/ ~IntOk(pieces[1]) \/ ~IntOk(pieces[2])
            THEN ValueError
            ELSE Returned(RangeList(IntOf(pieces[1]), IntOf(pieces[2])))
    ELSE IF IntOk(part) THEN Returned(<<IntOf(part)>>) ELSE ValueError

\* one iteration of the loop of parse_trade_number_input (helpers.py:13-19):
\* the identifiers a part contributes, or ValueError
ParsePart(part) ==
    IF "-" \in Range(part)
    THEN LET pieces == Split(part, "-")
         IN IF Len(pieces) # 2 \/ ~IntOk(pieces[1]) \/ ~IntOk(pieces[2])
            THEN ValueError
            ELSE IF IntOf(pieces[1]) > IntOf(pieces[2])
                 THEN ValueError
                 ELSE Returned(RangeList(IntOf(pieces[1]), IntOf(pieces[2])))
    ELSE IF IntOk(part) THEN Returned(<<IntOf(part)>>) ELSE ValueError

RECURSIVE ParseParts(_)
ParseParts(parts) ==
    IF parts = <<>> THEN Returned(<<>>)
    ELSE LET first == ParsePart(Head(parts))
         IN IF first.raised THEN ValueError
            ELSE LET rest == ParseParts(Tail(parts))
                 IN IF rest.raised THEN ValueError
                    ELSE Returned(first.value \o rest.value)

parse_trade_number_input(input_string) == ParseParts(Split(input_string, ","))

-----------------------------------------------------------------------------
(* Candle alignment (helpers.py:59-77).  A datetime is a record of its     *)
(* calendar fields; replace() overwrites the named fields.                 *)

SupportedTimeframes == {1, 5, 15, 60, 240, 1440}

\* the datetimes handed to align_datetime_to_candle
DateTimes ==
    [day : 0..MaxAlignDay, hour : 0..23, minute : 0..59,
     second : {0, 59}, microsecond : {0, 999999}]

\* the 4H branch with the hour set to the interval number (the "* 4" lost)
align_no_scale(d, tf) ==
    IF tf = 1 THEN [d EXCEPT !.second = 0, !.microsecond = 0]
    ELSE IF tf = 5
    THEN [d EXCEPT !.minute = (d.minute \div 5) * 5, !.second = 0, !.microsecond = 0]
    ELSE IF tf = 15
    THEN [d EXCEPT !.minute = (d.minute \div 15) * 15, !.second = 0, !.microsecond = 0]
    ELSE IF tf = 60
    THEN [d EXCEPT !.minute = 0, !.second = 0, !.microsecond = 0]
    ELSE IF tf = 240
    THEN [d EXCEPT !.hour = d.hour \div 4, !.minute = 0, !.second = 0, !.microsecond = 0]
    ELSE IF tf = 1440
    THEN [d EXCEPT !.hour = 0, !.minute = 0, !.second = 0, !.microsecond = 0]
    ELSE d

align_datetime_to_candle(d, tf) ==
    IF tf = 1 THEN [d EXCEPT !.second = 0, !.microsecond = 0]
    ELSE IF tf = 5
    THEN [d EXCEPT !.minute = (d.minute \div 5) * 5, !.second = 0, !.microsecond = 0]
    ELSE IF tf = 15
    THEN [d EXCEPT !.minute = (d.minute \div 15) * 15, !.second = 0, !.microsecond = 0]
    ELSE IF tf = 60
    THEN [d EXCEPT !.minute = 0, !.second = 0, !.microsecond = 0]
    ELSE IF tf = 240
    THEN [d EXCEPT !.hour = (d.hour \div 4) * 4, !.minute = 0, !.second = 0,
                   !.microsecond = 0]
    ELSE IF tf = 1440
    THEN [d EXCEPT !.hour = 0, !.minute = 0, !.second = 0, !.microsecond = 0]
    ELSE d

-----------------------------------------------------------------------------
(* DataFrames.                                                             *)

\* StreamLit.py:101-104
desired_columns ==
    {"Trade Number", "Open DateTime", "Opening Price", "Type", "Volume",
     "S / L", "T / P", "Close DateTime", "Closing Price", "Profit"}

\* the columns load_trade_data leaves in the loaded table (helpers.py:44-53)
loaded_columns == desired_columns \cup {"Open Time", "Close Time"}

Columns(row) == DOMAIN row \ {"idx"}

\* row[c] = v, adding the column when the row has none
SetCol(row, c, v) == [k \in DOMAIN row \cup {c} |-> IF k = c THEN v ELSE row[k]]

\* df[cols]
Project(df, cols) ==
    [i \in DOMAIN df |-> [c \in cols \cup {"idx"} |-> df[i][c]]]

\* df.reset_index(drop=True)
ResetIndex(df) == [i \in DOMAIN df |-> [df[i] EXCEPT !["idx"] = i - 1]]

\* the values of a column, in row order
Col(df, c) == [i \in DOMAIN df |-> df[i][c]]

\* the non-missing values of a list of numbers
Valid(xs) == SelectSeq(xs, LAMBDA x : x # NaN)

\* the columns that hold text; their missing cell is the text NaNText
TextColumns == {"Type"}
NaNText == "NaN"
Missing(c) == IF c \in TextColumns THEN NaNText ELSE NaN

\* GroupBy.first() of one column: the first non-missing value, NaN if none
RECURSIVE FirstValid(_, _)
FirstValid(rows, c) ==
    IF rows = <<>> THEN Missing(c)
    ELSE IF Head(rows)[c] # Missing(c) THEN Head(rows)[c]
    ELSE FirstValid(Tail(rows), c)

\* the keys of df.groupby(c): the distinct non-missing values, ascending
GroupKeys(df, c) == SortedSet(Range(Col(df, c)) \ {NaN})

\* the rows of one group, in the order of the table
Group(df, c, k) == SelectSeq(df, LAMBDA r : r[c] = k)

\* df.groupby(c).first().reset_index()
GroupByFirst(df, c) ==
    LET keys == GroupKeys(df, c)
    IN [g \in DOMAIN keys |->
          [k \in DOMAIN df[1] |->
              IF k = "idx" THEN g - 1
              ELSE IF k = c THEN keys[g]
              ELSE FirstValid(Group(df, c, keys[g]), k)]]

-----------------------------------------------------------------------------
(* Trade Filter.                                                           *)

\* StreamLit.py:25-33
RECURSIVE filter_trades(_, _, _)
filter_trades(df, numbers, cols) ==
    IF numbers = <<>> THEN <<>>
    ELSE LET trade_data_df ==
                 SelectSeq(df, LAMBDA r : r["Trade Number"] = Head(numbers))
         IN (IF trade_data_df # <<>> THEN <<Project(trade_data_df, cols)>> ELSE <<>>)
              \o filter_trades(df, Tail(numbers), cols)

\* helpers.py:55-57
filter_initial_trades(df) == GroupByFirst(df, "Close DateTime")

-----------------------------------------------------------------------------
(* Signal Grouper (helpers.py:262-277).                                    *)

\* The row orders sort_values(by=c) may return.  The default kind is
\* 'quicksort', which pandas documents as not stable: rows with equal keys
\* come out in any relative order, so the sort is a choice among the
\* orders that make the column ascending.
SortOrders(df, c) ==
    {p \in Perms(Len(df)) :
        \A i, j \in DOMAIN df : i < j => df[p[i]][c] <= df[p[j]][c]}

\* df.sort_values(by=c), the rows taken in the order the sort chose
SortValues(df, order) == [i \in DOMAIN df |-> df[order[i]]]

\* a signal id per Type seen so far, instead of one per run of equal Types
SignalGroupByType(df, i) ==
    Cardinality({df[j]["Type"] : j \in 1..i})

\* (Type != Type.shift()).cumsum() at row i: the number of rows up to i whose
\* Type differs from the row before (the first row differs from nothing)
SignalGroupAt(df, i) ==
    Cardinality({j \in 1..i : j = 1 \/ df[j]["Type"] # df[j - 1]["Type"]})

WithSignalGroup(df) ==
    [i \in DOMAIN df |-> SetCol(df[i], "Signal Group", SignalGroupAt(df, i))]

\* the close time of the first member instead of the maximum
group_close_first(group) == group[1]["Close DateTime"]

\* helpers.py:274
group_close_time(group) == Max(Range(Valid(Col(group, "Close DateTime"))))

\* helpers.py:273-275: the loop over the groups, one iteration per key; the
\* assignment selects rows by index label
RECURSIVE SignalCloseLoop(_, _)
SignalCloseLoop(df, keys) ==
    IF keys = <<>> THEN df
    ELSE LET group == Group(df, "Signal Group", Head(keys))
             labels == {r["idx"] : r \in Range(group)}
             close_time == group_close_time(group)
         IN SignalCloseLoop(
                [i \in DOMAIN df |->
                    IF df[i]["idx"] \in labels
                    THEN SetCol(df[i], "Signal Close Time", close_time)
                    ELSE IF "Signal Close Time" \in DOMAIN df[i] THEN df[i]
                    ELSE SetCol(df[i], "Signal Close Time", NaN)],
                Tail(keys))

\* helpers.py:262-277, for the order the sort chose
group_trades_into_signals(trade_data, order) ==
    LET grouped == WithSignalGroup(SortValues(trade_data, order))
    IN SignalCloseLoop(grouped, GroupKeys(grouped, "Signal Group"))

-----------------------------------------------------------------------------
(* Exact fractions, for means and medians.                                 *)

RECURSIVE GCD(_, _)
GCD(a, b) == IF b = 0 THEN a ELSE GCD(b, a % b)

Abs(x) == IF x < 0 THEN -x ELSE x

\* n / d in lowest terms, d > 0
Frac(n, d) ==
    LET g == GCD(Abs(n), d) IN [num |-> n \div g, den |-> d \div g]

NaNFrac == [num |-> NaN, den |-> 1]

\* xs ascending (a list of integers)
RECURSIVE Insert(_, _)
Insert(x, xs) ==
    IF xs = <<>> THEN <<x>>
    ELSE IF x <= Head(xs) THEN <<x>> \o xs
    ELSE <<Head(xs)>> \o Insert(x, Tail(xs))

RECURSIVE Sorted(_)
Sorted(xs) == IF xs = <<>> THEN <<>> ELSE Insert(Head(xs), Sorted(Tail(xs)))

\* Series.mean(): missing values are skipped, NaN when nothing is left
Mean(xs) ==
    LET v == Valid(xs) IN IF v = <<>> THEN NaNFrac ELSE Frac(SumSeq(v), Len(v))

\* Series.median(): the middle value, or the mean of the two middle values
Median(xs) ==
    LET v == Sorted(Valid(xs))
        n == Len(v)
    IN IF n = 0 THEN NaNFrac
       ELSE IF n % 2 = 1 THEN Frac(v[(n + 1) \div 2], 1)
       ELSE Frac(v[n \div 2] + v[n \div 2 + 1], 2)

\* Series.max() / Series.min(): missing values are skipped
MaxOf(xs) == IF Valid(xs) = <<>> THEN NaN ELSE Max(Range(Valid(xs)))
MinOf(xs) == IF Valid(xs) = <<>> THEN NaN ELSE Min(Range(Valid(xs)))

\* Series.sum(): missing values are skipped
SumOf(xs) == SumSeq(Valid(xs))

-----------------------------------------------------------------------------
(* Signal Aggregator (helpers.py:279-410).  A metric table is a sequence   *)
(* of rows without index labels (its index is the row number).             *)

Row2(k1, v1, k2, v2) == (k1 :> v1) @@ (k2 :> v2)
Row3(k1, v1, k2, v2, k3, v3) == (k1 :> v1) @@ (k2 :> v2) @@ (k3 :> v3)

\* helpers.py:292 / 317, one cell of the 'Pips Away' column
PipsAway(price, first_open_price) ==
    IF price = NaN \/ first_open_price = NaN THEN NaN
    ELSE (price - first_open_price) * 10000

\* the anchor taken from the last trade of the signal instead of the first
anchor_last(trades) == trades[Len(trades)]["Opening Price"]

\* helpers.py:291 / 316: trades.iloc[0]['Opening Price']
first_open_price(trades) == trades[1]["Opening Price"]

\* helpers.py:292 / 317: the 'Pips Away' column of one signal
PipsAwayColumn(trades) ==
    [i \in DOMAIN trades |->
        PipsAway(trades[i]["Opening Price"], first_open_price(trades))]

\* helpers.py:279-301
calculate_mean_pips_away(trade_data) ==
    LET keys == GroupKeys(trade_data, "Signal Group")
    IN [g \in DOMAIN keys |->
          LET trades == Group(trade_data, "Signal Group", keys[g])
          IN Row3("Signal Group", keys[g],
                  "Mean Pips Away", Mean(PipsAwayColumn(trades)),
                  "Trade Count", Len(trades))]

\* helpers.py:304-326
calculate_median_pips_away(trade_data) ==
    LET keys == GroupKeys(trade_data, "Signal Group")
    IN [g \in DOMAIN keys |->
          LET trades == Group(trade_data, "Signal Group", keys[g])
          IN Row3("Signal Group", keys[g],
                  "Median Pips Away", Median(PipsAwayColumn(trades)),
                  "Trade Count", Len(trades))]

\* Series.dt.date of one timestamp: the day, the time of day dropped
DateOf(t) == IF t = NaN THEN NaN ELSE t \div 1440

\* pd.to_datetime of a date: the timestamp of its midnight
DateToDatetime(d) == IF d = NaN THEN NaN ELSE d * 1440

\* helpers.py:336: the 'Close Date' column written into the caller's table
WithCloseDate(trade_data) ==
    [i \in DOMAIN trade_data |->
        SetCol(trade_data[i], "Close Date", DateOf(trade_data[i]["Close DateTime"]))]

\* the profit of the first trade of the day instead of the sum
day_profit_first(day_trades) == FirstValid(day_trades, "Profit")

\* helpers.py:337: ['Profit'].sum() of one day
day_profit(day_trades) == SumOf(Col(day_trades, "Profit"))

\* helpers.py:328-339, the returned table
calculate_daily_profits(trade_data) ==
    LET dated == WithCloseDate(trade_data)
        keys == GroupKeys(dated, "Close Date")
    IN [g \in DOMAIN keys |->
          Row2("Close Date", DateToDatetime(keys[g]),
               "Profit", day_profit(Group(dated, "Close Date", keys[g])))]

\* helpers.py:342-351
calculate_cumulative_volume(trade_data) ==
    LET keys == GroupKeys(trade_data, "Signal Group")
    IN [g \in DOMAIN keys |->
          Row2("Signal Group", keys[g],
               "Volume", SumOf(Col(Group(trade_data, "Signal Group", keys[g]), "Volume")))]

\* helpers.py:354-363
calculate_cumulative_trades_per_signal(trade_data) ==
    LET keys == GroupKeys(trade_data, "Signal Group")
    IN [g \in DOMAIN keys |->
          Row2("Signal Group", keys[g],
               "Trade Count", Len(Group(trade_data, "Signal Group", keys[g])))]

\* helpers.py:367-377
calculate_initial_trade_volume(trade_data) ==
    LET initial_trades == GroupByFirst(trade_data, "Signal Group")
    IN [g \in DOMAIN initial_trades |->
          Row2("Signal Group", initial_trades[g]["Signal Group"],
               "Volume", initial_trades[g]["Volume"])]

\* the window without the candle at the close time
TradeWindowOpenEnd(ohlc_data, trade_open_time, trade_close_time) ==
    SelectSeq(ohlc_data,
              LAMBDA c : c["DateTime"] >= trade_open_time
                         /\ c["DateTime"] < trade_close_time)

\* helpers.py:398: the candles of the closed window [open time, close time]
TradeWindow(ohlc_data, trade_open_time, trade_close_time) ==
    SelectSeq(ohlc_data,
              LAMBDA c : c["DateTime"] >= trade_open_time
                         /\ c["DateTime"] <= trade_close_time)

\* the drawdown of either direction measured as that of a long trade
MaxDrawdownAsLong(trade, ohlc_data) ==
    LET trade_ohlc_data ==
            TradeWindow(ohlc_data, trade["Open DateTime"], trade["Close DateTime"])
        open_price == trade["Opening Price"]
        low == MinOf(Col(trade_ohlc_data, "Low"))
    IN IF low = NaN \/ open_price = NaN THEN NaN ELSE (low - open_price) * 10000

\* helpers.py:400-403
MaxDrawdownOf(trade, ohlc_data) ==
    LET trade_ohlc_data ==
            TradeWindow(ohlc_data, trade["Open DateTime"], trade["Close DateTime"])
        open_price == trade["Opening Price"]
        low == MinOf(Col(trade_ohlc_data, "Low"))
        high == MaxOf(Col(trade_ohlc_data, "High"))
    IN IF trade["Type"] = "buy"
       THEN IF low = NaN \/ open_price = NaN THEN NaN ELSE (low - open_price) * 10000
       ELSE IF high = NaN \/ open_price = NaN THEN NaN ELSE (open_price - high) * 10000

\* the loop ended by the first signal whose window holds no candle
RECURSIVE DrawdownsUntilEmpty(_, _)
DrawdownsUntilEmpty(initial_trades, ohlc_data) ==
    IF initial_trades = <<>> THEN <<>>
    ELSE LET trade == Head(initial_trades)
         IN IF TradeWindow(ohlc_data, trade["Open DateTime"],
                           trade["Close DateTime"]) = <<>>
            THEN <<>>
            ELSE <<Row2("Signal Group", trade["Signal Group"],
                        "Max Pip Drawdown", MaxDrawdownOf(trade, ohlc_data))>>
                 \o DrawdownsUntilEmpty(Tail(initial_trades), ohlc_data)

max_pip_drawdown_until_empty(trade_data, ohlc_data) ==
    DrawdownsUntilEmpty(GroupByFirst(trade_data, "Signal Group"), ohlc_data)

\* helpers.py:379-410
calculate_max_pip_drawdown(trade_data, ohlc_data) ==
    LET initial_trades == GroupByFirst(trade_data, "Signal Group")
    IN [g \in DOMAIN initial_trades |->
          Row2("Signal Group", initial_trades[g]["Signal Group"],
               "Max Pip Drawdown", MaxDrawdownOf(initial_trades[g], ohlc_data))]

\* a - b of two fractions, NaN when either is
FracSub(a, b) ==
    IF a = NaNFrac \/ b = NaNFrac THEN NaNFrac
    ELSE Frac(a.num * b.den - b.num * a.den, a.den * b.den)

\* StreamLit.py:52-77, the six cells of the table; a total volume of 0 makes
\* the weighted cells NaN
calculate_average_prices(trade_agg) ==
    LET volume == SumOf(Col(trade_agg, "Volume"))
        weighted(c) ==
            IF volume = 0 THEN NaNFrac
            ELSE Frac(SumSeq([i \in DOMAIN trade_agg |->
                                 trade_agg[i][c] * trade_agg[i]["Volume"]]), volume)
        unweighted_open == Mean(Col(trade_agg, "Opening Price"))
        unweighted_close == Mean(Col(trade_agg, "Closing Price"))
    IN [unweighted_open |-> unweighted_open,
        unweighted_close |-> unweighted_close,
        unweighted_difference |-> FracSub(unweighted_close, unweighted_open),
        weighted_open |-> weighted("Opening Price"),
        weighted_close |-> weighted("Closing Price"),
        weighted_difference |->
            FracSub(weighted("Closing Price"), weighted("Opening Price"))]

-----------------------------------------------------------------------------
(* main (StreamLit.py:79-279), one action per step.                        *)

NoResults == [k \in {} |-> 0]

\* results[name] = value
Put(res, name, value) == (name :> value) @@ res

\* StreamLit.py:83-86 and 88-90: the typed text is parsed; a ValueError is
\* reported with st.error and st.stop ends the run
Parse ==
    /\ pc = "input"
    /\ LET r == IF trade_numbers_input = <<>> THEN ValueError
                ELSE parse_trade_number_input(trade_numbers_input)
       IN IF r.raised
          THEN /\ rendered' = Append(rendered, "error")
               /\ pc' = "stopped"
               /\ UNCHANGED trade_numbers
          ELSE /\ trade_numbers' = r.value
               /\ pc' = "parsed"
               /\ UNCHANGED rendered
    /\ UNCHANGED <<trade_numbers_input, all_trade_data_df, trade_data_dfs,
                   input_settings, arg_df, trade_agg_data, results,
                   tf_ohlc_data, dt, timeframe, aligned>>

\* the parsed list de-duplicated but left in the order of first mention
RECURSIVE Dedup(_)
Dedup(xs) ==
    IF xs = <<>> THEN <<>>
    ELSE <<Head(xs)>> \o Dedup(SelectSeq(Tail(xs), LAMBDA x : x # Head(xs)))

\* StreamLit.py:87: sorted(set(trade_numbers))
sorted_set(xs) == SortedSet(Range(xs))

SortSet ==
    /\ pc = "parsed"
    /\ trade_numbers' = sorted_set(trade_numbers)
    /\ pc' = "numbers"
    /\ UNCHANGED <<trade_numbers_input, all_trade_data_df, trade_data_dfs,
                   input_settings, arg_df, trade_agg_data, results, rendered,
                   tf_ohlc_data, dt, timeframe, aligned>>

\* the selection step going on with an empty selection
LoadAndFilterNoStop(file) ==
    /\ pc = "numbers"
    /\ all_trade_data_df' = file
    /\ trade_data_dfs' = filter_trades(file, trade_numbers, desired_columns)
    /\ pc' = "filtered"
    /\ UNCHANGED <<trade_numbers_input, trade_numbers, input_settings, arg_df,
                   trade_agg_data, results, rendered, tf_ohlc_data, dt,
                   timeframe, aligned>>

\* StreamLit.py:106-112: the trade file is loaded and the requested trades
\* selected; with nothing selected the run writes a notice and stops
LoadAndFilter(file) ==
    /\ pc = "numbers"
    /\ all_trade_data_df' = file
    /\ trade_data_dfs' = filter_trades(file, trade_numbers, desired_columns)
    /\ IF trade_data_dfs' = <<>>
       THEN /\ rendered' = Append(rendered, "write: No valid trades selected.")
            /\ pc' = "stopped"
       ELSE /\ pc' = "filtered"
            /\ UNCHANGED rendered
    /\ UNCHANGED <<trade_numbers_input, trade_numbers, input_settings, arg_df,
                   trade_agg_data, results, tf_ohlc_data, dt, timeframe, aligned>>

\* StreamLit.py:114-118: candles and settings are read, the selection is
\* concatenated and re-indexed
Concat(candles, showing_hedges) ==
    /\ pc = "filtered"
    /\ tf_ohlc_data' = candles
    /\ input_settings' = [ShowingHedges |-> showing_hedges]
    /\ trade_agg_data' = ResetIndex(Flatten(trade_data_dfs))
    /\ pc' = "concat"
    /\ UNCHANGED <<trade_numbers_input, trade_numbers, all_trade_data_df,
                   trade_data_dfs, arg_df, results, rendered, dt, timeframe,
                   aligned>>

\* StreamLit.py:119-121
Collapse ==
    /\ pc = "concat"
    /\ arg_df' = trade_agg_data
    /\ trade_agg_data' =
          IF ~input_settings.ShowingHedges
          THEN Project(filter_initial_trades(trade_agg_data), desired_columns)
          ELSE trade_agg_data
    /\ pc' = "collapsed"
    /\ UNCHANGED <<trade_numbers_input, trade_numbers, all_trade_data_df,
                   trade_data_dfs, input_settings, results, rendered,
                   tf_ohlc_data, dt, timeframe, aligned>>

\* StreamLit.py:123
GroupSignals ==
    /\ pc = "collapsed"
    /\ \E order \in SortOrders(trade_agg_data, "Open DateTime") :
          trade_agg_data' = group_trades_into_signals(trade_agg_data, order)
    /\ arg_df' = trade_agg_data
    /\ pc' = "grouped"
    /\ UNCHANGED <<trade_numbers_input, trade_numbers, all_trade_data_df,
                   trade_data_dfs, input_settings, results, rendered,
                   tf_ohlc_data, dt, timeframe, aligned>>

\* what the steps after the grouping leave alone
AggregationFrame ==
    UNCHANGED <<trade_numbers_input, trade_numbers, all_trade_data_df,
                trade_data_dfs, input_settings, arg_df, tf_ohlc_data, dt,
                timeframe, aligned>>

\* StreamLit.py:124
MeanPips ==
    /\ pc = "grouped"
    /\ results' = Put(results, "mean_pips_away_df",
                      calculate_mean_pips_away(trade_agg_data))
    /\ pc' = "mean"
    /\ UNCHANGED <<trade_agg_data, rendered>>
    /\ AggregationFrame

\* StreamLit.py:125
MedianPips ==
    /\ pc = "mean"
    /\ results' = Put(results, "median_pips_away_df",
                      calculate_median_pips_away(trade_agg_data))
    /\ pc' = "median"
    /\ UNCHANGED <<trade_agg_data, rendered>>
    /\ AggregationFrame

\* StreamLit.py:128-132; calculate_daily_profits writes the 'Close Date'
\* column into the table it is given (helpers.py:336)
DailyProfits ==
    /\ pc = "median"
    /\ LET daily_profits_df == calculate_daily_profits(trade_agg_data)
       IN results' =
            Put(Put(Put(results, "daily_profits_df", daily_profits_df),
                    "daily_profit_mean", Mean(Col(daily_profits_df, "Profit"))),
                "daily_profit_median", Median(Col(daily_profits_df, "Profit")))
    /\ trade_agg_data' = WithCloseDate(trade_agg_data)
    /\ pc' = "daily"
    /\ UNCHANGED rendered
    /\ AggregationFrame

\* StreamLit.py:131-168: the four summary statistics of one metric column
Statistics(res, name, xs) ==
    Put(Put(Put(Put(res, name \o "_mean", Mean(xs)),
                name \o "_median", Median(xs)),
            name \o "_max", MaxOf(xs)),
        name \o "_min", MinOf(xs))

\* StreamLit.py:135-141
CumulativeVolume ==
    /\ pc = "daily"
    /\ LET cumulative_volume_df == calculate_cumulative_volume(trade_agg_data)
       IN results' =
            Statistics(Put(results, "cumulative_volume_df", cumulative_volume_df),
                       "volume", Col(cumulative_volume_df, "Volume"))
    /\ pc' = "volume"
    /\ UNCHANGED <<trade_agg_data, rendered>>
    /\ AggregationFrame

\* StreamLit.py:144-150
CumulativeTrades ==
    /\ pc = "volume"
    /\ LET cumulative_trades_df == calculate_cumulative_trades_per_signal(trade_agg_data)
       IN results' =
            Statistics(Put(results, "cumulative_trades_df", cumulative_trades_df),
                       "trades", Col(cumulative_trades_df, "Trade Count"))
    /\ pc' = "trades"
    /\ UNCHANGED <<trade_agg_data, rendered>>
    /\ AggregationFrame

\* StreamLit.py:153-159
InitialVolume ==
    /\ pc = "trades"
    /\ LET initial_trade_volume_df == calculate_initial_trade_volume(trade_agg_data)
       IN results' =
            Statistics(Put(results, "initial_trade_volume_df", initial_trade_volume_df),
                       "initial_volume", Col(initial_trade_volume_df, "Volume"))
    /\ pc' = "initial"
    /\ UNCHANGED <<trade_agg_data, rendered>>
    /\ AggregationFrame

\* StreamLit.py:162-168
MaxDrawdown ==
    /\ pc = "initial"
    /\ LET max_pip_drawdown_df == calculate_max_pip_drawdown(trade_agg_data, tf_ohlc_data)
       IN results' =
            Statistics(Put(results, "max_pip_drawdown_df", max_pip_drawdown_df),
                       "drawdown", Col(max_pip_drawdown_df, "Max Pip Drawdown"))
    /\ pc' = "drawdown"
    /\ UNCHANGED <<trade_agg_data, rendered>>
    /\ AggregationFrame

\* the candlestick chart drawn before the drawdown is calculated
CandlestickChartEarly ==
    /\ pc = "initial"
    /\ rendered' = Append(rendered, "plotly_chart: Trade Progress")
    /\ pc' = "chart"
    /\ UNCHANGED <<trade_agg_data, results>>
    /\ AggregationFrame

\* StreamLit.py:171-172
CandlestickChart ==
    /\ pc = "drawdown"
    /\ rendered' = Append(rendered, "plotly_chart: Trade Progress")
    /\ pc' = "chart"
    /\ UNCHANGED <<trade_agg_data, results>>
    /\ AggregationFrame

\* StreamLit.py:174-273: the metric charts and the statistics, in order
MetricElements ==
    << "plotly_chart: Mean Pips Away", "plotly_chart: Median Pips Away",
       "plotly_chart: Daily Profits", "write: daily profit statistics",
       "plotly_chart: Cumulative Volume", "write: volume statistics",
       "plotly_chart: Cumulative Trades", "write: trade count statistics",
       "plotly_chart: Initial Trade Volume", "write: initial volume statistics",
       "plotly_chart: Max Pip Drawdown", "write: drawdown statistics" >>

MetricCharts ==
    /\ pc = "chart"
    /\ rendered' = rendered \o MetricElements
    /\ pc' = "charts"
    /\ UNCHANGED <<trade_agg_data, results>>
    /\ AggregationFrame

\* StreamLit.py:275-277
AveragePrices ==
    /\ pc = "charts"
    /\ IF input_settings.ShowingHedges
       THEN /\ results' = Put(results, "average_price_data_df",
                              calculate_average_prices(trade_agg_data))
            /\ rendered' = Append(rendered, "table: average prices")
       ELSE UNCHANGED <<results, rendered>>
    /\ pc' = "averages"
    /\ UNCHANGED trade_agg_data
    /\ AggregationFrame

\* StreamLit.py:279
FinalTable ==
    /\ pc = "averages"
    /\ results' = Put(results, "displayed_table", trade_agg_data)
    /\ rendered' = Append(rendered, "table: trades")
    /\ pc' = "done"
    /\ UNCHANGED trade_agg_data
    /\ AggregationFrame

-----------------------------------------------------------------------------
(* align_datetime_to_candle applied once and applied to its own result.    *)

AlignOnce ==
    /\ pc = "align"
    /\ aligned' = <<align_datetime_to_candle(dt, timeframe)>>
    /\ pc' = "realign"
    /\ UNCHANGED <<trade_numbers_input, trade_numbers, all_trade_data_df,
                   trade_data_dfs, input_settings, arg_df, trade_agg_data,
                   results, rendered, tf_ohlc_data, dt, timeframe>>

AlignAgain ==
    /\ pc = "realign"
    /\ aligned' = Append(aligned, align_datetime_to_candle(aligned[1], timeframe))
    /\ pc' = "aligned"
    /\ UNCHANGED <<trade_numbers_input, trade_numbers, all_trade_data_df,
                   trade_data_dfs, input_settings, arg_df, trade_agg_data,
                   results, rendered, tf_ohlc_data, dt, timeframe>>

-----------------------------------------------------------------------------
(* The inputs: typed texts, trade tables, candle series.                   *)

RECURSIVE Join(_, _)
Join(parts, sep) ==
    IF Len(parts) = 1 THEN parts[1]
    ELSE parts[1] \o <<sep>> \o Join(Tail(parts), sep)

\* parts of a typed text: "0", "2", " 5", "10", "0-2", "2-2", "5-2",
\* " 1 - 2 ", "x", "", " ", "1-", "-1", "0-2-5", "1-x", "1 2"
ParseTokens ==
    {<<"0">>,
     <<"2">>,
     <<" ", "5">>,
     <<"1", "0">>,
     <<"0", "-", "2">>,
     <<"2", "-", "2">>,
     <<"5", "-", "2">>,
     <<" ", "1", " ", "-", " ", "2", " ">>,
     <<"x">>,
     <<>>,
     <<" ">>,
     <<"1", "-">>,
     <<"-", "1">>,
     <<"0", "-", "2", "-", "5">>,
     <<"1", "-", "x">>,
     <<"1", " ", "2">>}

\* parts of a well-formed typed text: "0", "1", "2", "0-2"
SelectTokens ==
    {<<"0">>,
     <<"1">>,
     <<"2">>,
     <<"0", "-", "2">>}

\* the texts typed in a run of main: "", "x", "1-0", "7", "0", "1", "0-1", "1,0"
MainInputs ==
    {<<>>,
     <<"x">>,
     <<"1", "-", "0">>,
     <<"7">>,
     <<"0">>,
     <<"1">>,
     <<"0", "-", "1">>,
     <<"1", ",", "0">>}

Types == {"buy", "sell"}

\* midnight of the days 0..MaxDay
Days == {d * 1440 : d \in 0..MaxDay}

\* noon and the last minute of the days 0..MaxDay
DayTimes == {d * 1440 + m : d \in 0..MaxDay, m \in {720, 1439}}

\* one row of a trade table with the desired columns
TradeRow(idx, num, open, price, type, volume, sl, close, profit) ==
    [c \in desired_columns \cup {"idx"} |->
        CASE c = "idx" -> idx
          [] c = "Trade Number" -> num
          [] c = "Open DateTime" -> open
          [] c = "Opening Price" -> price
          [] c = "Type" -> type
          [] c = "Volume" -> volume
          [] c = "S / L" -> sl
          [] c = "T / P" -> 0
          [] c = "Close DateTime" -> close
          [] c = "Closing Price" -> price
          [] c = "Profit" -> profit]

\* one row of the loaded trade file (helpers.py:44-53): the desired columns
\* and the two time columns they were copied from
FileRow(idx, num, open, price, type, volume, sl, close, profit) ==
    [c \in loaded_columns \cup {"idx"} |->
        IF c = "Open Time" THEN open
        ELSE IF c = "Close Time" THEN close
        ELSE TradeRow(idx, num, open, price, type, volume, sl, close, profit)[c]]

\* the table whose row i is built from the i-th shape of a list
TableOf(shapes, row(_, _)) == [i \in DOMAIN shapes |-> row(i, shapes[i])]

\* rows for the grouper: open and close day and direction vary
GroupShapes == {sh \in [o : Days, c : Days, t : Types] : sh.o <= sh.c}
GroupRow(i, sh) == TradeRow(i - 1, i - 1, sh.o, 1, sh.t, 1, 0, sh.c, 0)

\* four trades opened one minute apart, with directions buy, buy, sell, buy
GroupExample ==
    [i \in 1..4 |->
        TradeRow(i - 1, i - 1, i - 1, 1, IF i = 3 THEN "sell" ELSE "buy", 1, 0, 720, 0)]

\* rows for the pip distances: open day, direction and open price vary
PipsShapes == [o : Days, t : Types, p : {1, 4}]
PipsRow(i, sh) == TradeRow(i - 1, i - 1, sh.o, sh.p, sh.t, 1, 0, sh.o, 0)

\* rows for the daily profits: close time and profit vary, the rows are in
\* open-time order
DailyShapes == [c : DayTimes, p : {-20, 50}]
DailyRow(i, sh) == TradeRow(i - 1, i - 1, i - 1, 1, "buy", 1, 0, sh.c, sh.p)

\* rows for the hedge collapsing: close day, direction and stop level vary
\* (a trade without a stop has an empty S / L cell)
CollapseShapes == [c : Days, t : Types, sl : {NaN, 1}]
CollapseRow(i, sh) == TradeRow(i - 1, i - 1, 0, i, sh.t, i, sh.sl, sh.c, 0)

\* rows of the trade file for the selection: the trade number varies, the
\* open price tells the rows of one number apart
SelectShapes == 0..MaxId
SelectRow(i, n) == FileRow(i - 1, n, i - 1, i, "buy", 1, 0, 720, 0)

\* rows of the trade file for a whole run: number, direction and close time
\* vary
MainShapes == [n : {0, 1}, t : Types, c : {720, 2160}]
MainRow(i, sh) == FileRow(i - 1, sh.n, i - 1, i, sh.t, 1, 0, sh.c, 10 * i)

Candle(t, o, h, l, c) ==
    [DateTime |-> t, Open |-> o, High |-> h, Low |-> l, Close |-> c]

\* candle series for a whole run: one that covers every trade of the run and
\* one that ends before the later close time
MainCandles ==
    { <<Candle(0, 2, 3, 1, 2), Candle(1440, 2, 4, 2, 3)>>,
      <<Candle(0, 2, 3, 1, 2), Candle(2160, 3, 3, 0, 1)>> }

\* rows for the drawdown: open minute, length of the trade in minutes,
\* direction and open price vary; every time and price is present
DrawdownShapes == [o : 0..1, w : 0..1, t : Types, p : {2, 3}]
DrawdownRow(i, sh) == TradeRow(i - 1, i - 1, sh.o, sh.p, sh.t, 1, 0, sh.o + sh.w, 0)

\* what the candle series holds at one minute: no candle, a candle below
\* the open prices of the trades or a candle above them
NoCandle == [l |-> NaN, h |-> NaN]
CandleMarks == {NoCandle, [l |-> 1, h |-> 2], [l |-> 3, h |-> 4]}

\* the candle series of an assignment of marks to the minutes
\* 0..MaxCandleTime: timestamps strictly increasing, Low <= Open, Close <= High
CandleSeries(marks) ==
    LET times == SelectSeq([i \in 1..(MaxCandleTime + 1) |-> i - 1],
                           LAMBDA t : marks[t] # NoCandle)
    IN [i \in DOMAIN times |->
          Candle(times[i], marks[times[i]].l, marks[times[i]].h,
                 marks[times[i]].l, marks[times[i]].h)]

-----------------------------------------------------------------------------
(* Specifications.                                                         *)

\* the variables a specification does not draw, before anything ran
Idle(vs) ==
    /\ "trade_numbers_input" \in vs \/ trade_numbers_input = <<>>
    /\ trade_numbers = <<>>
    /\ all_trade_data_df = <<>>
    /\ trade_data_dfs = <<>>
    /\ "input_settings" \in vs \/ input_settings = [ShowingHedges |-> TRUE]
    /\ arg_df = <<>>
    /\ "trade_agg_data" \in vs \/ trade_agg_data = <<>>
    /\ results = NoResults
    /\ rendered = <<"title">>
    /\ "tf_ohlc_data" \in vs \/ tf_ohlc_data = <<>>
    /\ "dt" \in vs \/ dt = [day |-> 0, hour |-> 0, minute |-> 0, second |-> 0,
                           microsecond |-> 0]
    /\ "timeframe" \in vs \/ timeframe = 1
    /\ aligned = <<>>

\* a whole run of main, after st.title (StreamLit.py:80)
Init ==
    /\ pc = "input"
    /\ trade_numbers_input \in MainInputs
    /\ Idle({"trade_numbers_input"})

Next ==
    \/ Parse
    \/ SortSet
    \/ \E k \in 0..MaxFileRows : \E shapes \in [1..k -> MainShapes] :
          LoadAndFilter(TableOf(shapes, MainRow))
    \/ \E candles \in MainCandles, showing_hedges \in BOOLEAN :
          Concat(candles, showing_hedges)
    \/ Collapse
    \/ GroupSignals
    \/ MeanPips
    \/ MedianPips
    \/ DailyProfits
    \/ CumulativeVolume
    \/ CumulativeTrades
    \/ InitialVolume
    \/ MaxDrawdown
    \/ CandlestickChart
    \/ MetricCharts
    \/ AveragePrices
    \/ FinalTable

Spec == Init /\ [][Next]_vars

\* parse_trade_number_input on typed texts
InitParse ==
    /\ pc = "input"
    /\ \E k \in 1..MaxParts : \E parts \in [1..k -> ParseTokens] :
          trade_numbers_input = Join(parts, ",")
    /\ Idle({"trade_numbers_input"})

NextParse == Parse \/ SortSet

SpecParse == InitParse /\ [][NextParse]_vars

\* the selection of trades by number, from the typed text to filter_trades
InitSelect ==
    /\ pc = "input"
    /\ \E k \in 1..MaxParts : \E parts \in [1..k -> SelectTokens] :
          trade_numbers_input = Join(parts, ",")
    /\ Idle({"trade_numbers_input"})

NextSelect ==
    \/ Parse
    \/ SortSet
    \/ \E k \in 0..MaxTrades : \E shapes \in [1..k -> SelectShapes] :
          LoadAndFilter(TableOf(shapes, SelectRow))

SpecSelect == InitSelect /\ [][NextSelect]_vars

\* filter_initial_trades as main calls it
InitCollapse ==
    /\ pc = "concat"
    /\ \E k \in 1..MaxTrades : \E shapes \in [1..k -> CollapseShapes] :
          trade_agg_data = TableOf(shapes, CollapseRow)
    /\ input_settings \in [ShowingHedges : BOOLEAN]
    /\ Idle({"trade_agg_data", "input_settings"})

NextCollapse == Collapse

SpecCollapse == InitCollapse /\ [][NextCollapse]_vars

\* group_trades_into_signals
InitGroup ==
    /\ pc = "collapsed"
    /\ \/ \E k \in 1..MaxTrades : \E shapes \in [1..k -> GroupShapes] :
             trade_agg_data = TableOf(shapes, GroupRow)
       \/ trade_agg_data = GroupExample
    /\ Idle({"trade_agg_data"})

NextGroup == GroupSignals

SpecGroup == InitGroup /\ [][NextGroup]_vars

\* the pip distances of grouped trades
InitPips ==
    /\ pc = "collapsed"
    /\ \E k \in 1..MaxTrades : \E shapes \in [1..k -> PipsShapes] :
          trade_agg_data = TableOf(shapes, PipsRow)
    /\ Idle({"trade_agg_data"})

NextPips == GroupSignals \/ MeanPips \/ MedianPips

SpecPips == InitPips /\ [][NextPips]_vars

\* calculate_daily_profits on grouped trades
InitDaily ==
    /\ pc = "median"
    /\ \E k \in 1..MaxTrades : \E shapes \in [1..k -> DailyShapes] :
          trade_agg_data =
             group_trades_into_signals(TableOf(shapes, DailyRow), [i \in 1..k |-> i])
    /\ Idle({"trade_agg_data"})

NextDaily == DailyProfits

SpecDaily == InitDaily /\ [][NextDaily]_vars

\* calculate_max_pip_drawdown on grouped trades and a candle series
InitDrawdown ==
    /\ pc = "initial"
    /\ \E k \in 1..MaxSignalTrades : \E shapes \in [1..k -> DrawdownShapes] :
          \E order \in SortOrders(TableOf(shapes, DrawdownRow), "Open DateTime") :
             trade_agg_data =
                group_trades_into_signals(TableOf(shapes, DrawdownRow), order)
    /\ \E marks \in [0..MaxCandleTime -> CandleMarks] :
          tf_ohlc_data = CandleSeries(marks)
    /\ Idle({"trade_agg_data", "tf_ohlc_data"})

NextDrawdown == MaxDrawdown

SpecDrawdown == InitDrawdown /\ [][NextDrawdown]_vars

\* align_datetime_to_candle
InitAlign ==
    /\ pc = "align"
    /\ dt \in DateTimes
    /\ timeframe \in SupportedTimeframes
    /\ Idle({"dt", "timeframe"})

NextAlign == AlignOnce \/ AlignAgain

SpecAlign == InitAlign /\ [][NextAlign]_vars

-----------------------------------------------------------------------------
(* Signal grouping: C1, C2, C3 (SpecGroup).                                *)

\* the positions of the rows of a table that carry signal id g
Members(df, g) == {i \in DOMAIN df : df[i]["Signal Group"] = g}

\* the grouped table holds the trades it was given, each once, unchanged
SameTrades(grouped, given) ==
    /\ Len(grouped) = Len(given)
    /\ \A i \in DOMAIN given : \E j \in DOMAIN grouped :
          \A c \in DOMAIN given[i] : grouped[j][c] = given[i][c]
    /\ \A i, j \in DOMAIN grouped : i # j => grouped[i]["idx"] # grouped[j]["idx"]

\* C1: after group_trades_into_signals the trades are in open-time order, the
\* first has signal id 1 and every later one has the id of the trade before it
\* when both have the same direction and that id plus one otherwise; so the
\* ids never decrease, members of one signal share a direction, a direction
\* seen before still starts a new signal, and directions buy, buy, sell, buy
\* get the ids 1, 1, 2, 3.
C1_SignalIds ==
    pc = "grouped" =>
        LET g == trade_agg_data
            id(i) == g[i]["Signal Group"]
        IN /\ SameTrades(g, arg_df)
           /\ \A i, j \in DOMAIN g :
                 i < j => g[i]["Open DateTime"] <= g[j]["Open DateTime"]
           /\ id(1) = 1
           /\ \A i \in DOMAIN g :
                 i > 1 => id(i) = IF g[i]["Type"] = g[i - 1]["Type"]
                                  THEN id(i - 1) ELSE id(i - 1) + 1
           /\ \A i, j \in DOMAIN g :
                 /\ id(i) = id(j) => g[i]["Type"] = g[j]["Type"]
                 /\ i < j /\ id(i) # id(j) => id(i) < id(j)
           /\ Col(g, "Type") = <<"buy", "buy", "sell", "buy">>
                 => Col(g, "Signal Group") = <<1, 1, 2, 3>>

\* the example of C1: directions buy, buy, sell, buy grouped as 1, 1, 2, 3
C1_Witness ==
    /\ pc = "grouped"
    /\ Col(trade_agg_data, "Type") = <<"buy", "buy", "sell", "buy">>
    /\ Col(trade_agg_data, "Signal Group") = <<1, 1, 2, 3>>

\* C2: after group_trades_into_signals every trade's 'Signal Close Time' is
\* the largest close time among the trades with its signal id, and the close
\* time of the trade itself when it is alone in its signal.
C2_SignalCloseTime ==
    pc = "grouped" =>
        LET g == trade_agg_data
        IN \A i \in DOMAIN g :
              LET m == Members(g, g[i]["Signal Group"])
              IN /\ \E j \in m : g[i]["Signal Close Time"] = g[j]["Close DateTime"]
                 /\ \A j \in m : g[j]["Close DateTime"] <= g[i]["Signal Close Time"]
                 /\ m = {i} => g[i]["Signal Close Time"] = g[i]["Close DateTime"]

\* a signal whose first member does not close last, beside a signal of one
C2_Witness ==
    /\ pc = "grouped"
    /\ \E i, j, k \in DOMAIN trade_agg_data :
          /\ i < j
          /\ trade_agg_data[i]["Signal Group"] = trade_agg_data[j]["Signal Group"]
          /\ trade_agg_data[i]["Close DateTime"] < trade_agg_data[j]["Close DateTime"]
          /\ trade_agg_data[i]["Signal Close Time"] = trade_agg_data[j]["Close DateTime"]
          /\ Members(trade_agg_data, trade_agg_data[k]["Signal Group"]) = {k}

\* C3: the ordering step of group_trades_into_signals is stable: trades with
\* equal open time keep, in the grouped table, the relative order they had in
\* the table given (index labels are the positions in the table given).
C3_StableSort ==
    pc = "grouped" =>
        \A i, j \in DOMAIN trade_agg_data :
            /\ i < j
            /\ trade_agg_data[i]["Open DateTime"] = trade_agg_data[j]["Open DateTime"]
            => trade_agg_data[i]["idx"] < trade_agg_data[j]["idx"]

-----------------------------------------------------------------------------
(* Hedge collapsing: C4 (SpecCollapse).                                    *)

\* the first row of a table, in table order, that closes at time c
FirstClosingAt(df, c) ==
    df[Min({i \in DOMAIN df : df[i]["Close DateTime"] = c})]

\* C4: filter_initial_trades returns, for every close time of the table given,
\* exactly one trade, which is the first-listed trade with that close time,
\* every field taken from that trade, and returns nothing else.
C4_FirstTradePerCloseTime ==
    pc = "collapsed" /\ ~input_settings.ShowingHedges =>
        /\ \A i \in DOMAIN arg_df :
              \E j \in DOMAIN trade_agg_data :
                 /\ trade_agg_data[j]["Close DateTime"] = arg_df[i]["Close DateTime"]
                 /\ \A k \in DOMAIN trade_agg_data :
                       trade_agg_data[k]["Close DateTime"]
                          = arg_df[i]["Close DateTime"] => k = j
        /\ \A j \in DOMAIN trade_agg_data :
              /\ \E i \in DOMAIN arg_df :
                    arg_df[i]["Close DateTime"] = trade_agg_data[j]["Close DateTime"]
              /\ \A c \in desired_columns :
                    trade_agg_data[j][c]
                       = FirstClosingAt(arg_df, trade_agg_data[j]["Close DateTime"])[c]

-----------------------------------------------------------------------------
(* Trade selection: C5 (SpecSelect).                                       *)

\* the identifiers the typed text asks for, in the order typed
Requested == parse_trade_number_input(trade_numbers_input).value

\* the trade number of each selected table, in the order of the selection
SelectedIds == [k \in DOMAIN trade_data_dfs |-> trade_data_dfs[k][1]["Trade Number"]]

HasTrade(n) == \E i \in DOMAIN all_trade_data_df : all_trade_data_df[i]["Trade Number"] = n

\* every selected table holds all the trades of one requested number, in the
\* order of the file, and no number is selected twice; a number without a
\* trade is left out and nothing is raised
SelectionContent ==
    /\ Range(SelectedIds) = {n \in Range(Requested) : HasTrade(n)}
    /\ \A k, l \in DOMAIN trade_data_dfs : k # l => SelectedIds[k] # SelectedIds[l]
    /\ \A k \in DOMAIN trade_data_dfs :
          LET t == trade_data_dfs[k]
          IN /\ \A i \in DOMAIN t : t[i]["Trade Number"] = SelectedIds[k]
                                    /\ Columns(t[i]) = desired_columns
             /\ \A i, j \in DOMAIN t : i < j => t[i]["idx"] < t[j]["idx"]
             /\ \A i \in DOMAIN all_trade_data_df :
                   all_trade_data_df[i]["Trade Number"] = SelectedIds[k]
                   => \E j \in DOMAIN t :
                         \A c \in desired_columns \cup {"idx"} :
                             t[j][c] = all_trade_data_df[i][c]
    /\ Len(trade_data_dfs) <= Cardinality(Range(Requested))
    /\ (\E n \in Range(Requested) : ~HasTrade(n))
          => Len(trade_data_dfs) < Cardinality(Range(Requested))
    /\ (pc = "stopped") = (trade_data_dfs = <<>>)

\* position of the first mention of n in the typed request
FirstMention(n) == Min({i \in DOMAIN Requested : Requested[i] = n})

\* C5 as stated: the selection follows the order in which the identifiers were
\* requested.
C5_RequestedOrder ==
    pc \in {"filtered", "stopped"} =>
        /\ SelectionContent
        /\ \A k, l \in DOMAIN trade_data_dfs :
              k < l => FirstMention(SelectedIds[k]) < FirstMention(SelectedIds[l])

\* C5 as amended: the selection is in ascending order of the identifiers,
\* whatever the order in which they were requested.
C5_AscendingOrder ==
    pc \in {"filtered", "stopped"} =>
        /\ SelectionContent
        /\ \A k, l \in DOMAIN trade_data_dfs :
              k < l => SelectedIds[k] < SelectedIds[l]

\* a request that names a number twice, the larger number first, and a number
\* the file does not hold; two numbers are selected
C5_Witness ==
    /\ pc = "filtered"
    /\ Len(trade_data_dfs) >= 2
    /\ \E i, j \in DOMAIN Requested : i < j /\ Requested[i] > Requested[j]
    /\ \E i, j \in DOMAIN Requested : i # j /\ Requested[i] = Requested[j]
    /\ \E n \in Range(Requested) : ~HasTrade(n)
    /\ \E k \in DOMAIN trade_data_dfs : Len(trade_data_dfs[k]) >= 2

-----------------------------------------------------------------------------
(* Identifier parsing: C6 (SpecParse).                                     *)

\* What each part of ParseTokens names, read off the part by hand: the
\* identifiers of a single value or of a range a-b with a <= b, in ascending
\* order; the other parts are malformed (a range with start > end, a part
\* that is not a number, a range with an end missing or with three ends).
Named(part) ==
    CASE part = <<"0">> -> <<0>>
      [] part = <<"2">> -> <<2>>
      [] part = <<" ", "5">> -> <<5>>
      [] part = <<"1", "0">> -> <<10>>
      [] part = <<"0", "-", "2">> -> <<0, 1, 2>>
      [] part = <<"2", "-", "2">> -> <<2>>
      [] part = <<" ", "1", " ", "-", " ", "2", " ">> -> <<1, 2>>
      [] OTHER -> <<>>

WellFormed(part) ==
    part \in {<<"0">>, <<"2">>, <<" ", "5">>, <<"1", "0">>, <<"0", "-", "2">>, <<"2", "-", "2">>, <<" ", "1", " ", "-", " ", "2", " ">>}

\* C6: parse_trade_number_input returns exactly the identifiers the parts of
\* the text name, part after part, when every part is a single value or a
\* range a-b with a <= b ("0-2, 5" gives 0, 1, 2, 5), and raises ValueError,
\* returning no identifier, when some range has start > end or some part is
\* not numeric.
C6_ParseIdentifiers ==
    pc \in {"parsed", "stopped"} =>
        LET parts == Split(trade_numbers_input, ",")
        IN IF \A k \in DOMAIN parts : WellFormed(parts[k])
           THEN /\ pc = "parsed"
                /\ trade_numbers = Flatten([k \in DOMAIN parts |-> Named(parts[k])])
                /\ "error" \notin Range(rendered)
           ELSE /\ pc = "stopped"
                /\ trade_numbers = <<>>
                /\ rendered[Len(rendered)] = "error"

\* the example of C6: "0-2, 5" parsed to 0, 1, 2, 5
C6_Witness ==
    /\ pc = "parsed"
    /\ trade_numbers_input = <<"0", "-", "2", ",", " ", "5">>
    /\ trade_numbers = <<0, 1, 2, 5>>

\* "5-2" among the parts, reported as an error
C6_WitnessError ==
    /\ pc = "stopped"
    /\ <<"5", "-", "2">> \in Range(Split(trade_numbers_input, ","))
    /\ rendered[Len(rendered)] = "error"

-----------------------------------------------------------------------------
(* Validation before the pipeline: C7 (Spec).                              *)

\* the texts of MainInputs that are empty or malformed: "", "x", "1-0"
Malformed(text) == text \in {<<>>, <<"x">>, <<"1", "-", "0">>}

\* the identifiers the other texts of MainInputs ask for
MainRequested(text) ==
    CASE text = <<"7">> -> {7}
      [] text = <<"0">> -> {0}
      [] text = <<"1">> -> {1}
      [] text = <<"0", "-", "1">> -> {0, 1}
      [] text = <<"1", ",", "0">> -> {0, 1}
      [] OTHER -> {}

SomeMatch ==
    \E i \in DOMAIN all_trade_data_df :
        all_trade_data_df[i]["Trade Number"] \in MainRequested(trade_numbers_input)

\* the positions of main after the selection was found non-empty
PipelineStages ==
    {"filtered", "concat", "collapsed", "grouped", "mean", "median", "daily",
     "volume", "trades", "initial", "drawdown", "chart", "charts", "averages",
     "done"}

\* a grouped table, a metric or a chart exists
Produced ==
    \/ DOMAIN results # {}
    \/ trade_agg_data # <<>>
    \/ \E i \in DOMAIN rendered :
          rendered[i] \notin {"title", "error", "write: No valid trades selected."}

\* C7: hedge collapsing, grouping, aggregation and rendering happen only after
\* the parsing succeeded and some requested identifier matched a trade; an
\* empty or malformed text is reported as an error and the run stops, no
\* matching identifier is reported as no data and the run stops, in both
\* cases with no grouped table, metric or chart.
C7_ValidationFirst ==
    /\ Malformed(trade_numbers_input) =>
          /\ pc \in {"input", "stopped"}
          /\ pc = "stopped" => rendered = <<"title", "error">>
    /\ /\ ~Malformed(trade_numbers_input)
       /\ pc \notin {"input", "parsed", "numbers"}
       /\ ~SomeMatch
       => /\ pc = "stopped"
          /\ rendered = <<"title", "write: No valid trades selected.">>
    /\ pc = "stopped" => ~Produced /\ ~ENABLED Next
    /\ Produced \/ pc \in PipelineStages =>
          ~Malformed(trade_numbers_input) /\ SomeMatch

\* a run stopped because the trades of the file have other numbers
C7_Witness ==
    /\ pc = "stopped"
    /\ all_trade_data_df # <<>>
    /\ rendered = <<"title", "write: No valid trades selected.">>

-----------------------------------------------------------------------------
(* Candle alignment: C8 (SpecAlign).                                       *)

\* whole minutes from the midnight of day 0 to a datetime
MinutesOf(d) == (d.day * 24 + d.hour) * 60 + d.minute

\* C8: for a supported timeframe tf, align_datetime_to_candle(t, tf) is the
\* start of the candle that holds t: an instant r on a multiple of tf minutes
\* with r <= t < r + tf minutes (the hour a multiple of 4 for 240, midnight for
\* 1440); and aligning r again gives r.
C8_AlignToCandle ==
    pc \in {"realign", "aligned"} =>
        LET r == aligned[1]
        IN /\ r.second = 0 /\ r.microsecond = 0
           /\ MinutesOf(r) % timeframe = 0
           /\ MinutesOf(r) <= MinutesOf(dt)
           /\ MinutesOf(dt) < MinutesOf(r) + timeframe
           /\ timeframe = 240 => r.hour % 4 = 0 /\ r.minute = 0
           /\ timeframe = 1440 => r.hour = 0 /\ r.minute = 0
           /\ pc = "aligned" => aligned[2] = r

\* 22:47:59.999999 aligned to the four-hour candle of 20:00, twice
C8_Witness ==
    /\ pc = "aligned"
    /\ timeframe = 240
    /\ dt = [day |-> 0, hour |-> 22, minute |-> 47, second |-> 59,
             microsecond |-> 999999]
    /\ aligned = << [day |-> 0, hour |-> 20, minute |-> 0, second |-> 0,
                     microsecond |-> 0],
                    [day |-> 0, hour |-> 20, minute |-> 0, second |-> 0,
                     microsecond |-> 0] >>

-----------------------------------------------------------------------------
(* Pip distances: C9 (SpecPips).                                           *)

\* the signal ids of a grouped table
SignalIds(df) == {df[i]["Signal Group"] : i \in DOMAIN df}

\* the pip distance of row i from the earliest-listed member of its signal
PipsFromAnchor(df, i) ==
    LET anchor == df[Min(Members(df, df[i]["Signal Group"]))]
    IN (df[i]["Opening Price"] - anchor["Opening Price"]) * 10000

RECURSIVE SumPips(_, _)
SumPips(df, m) ==
    IF m = {} THEN 0
    ELSE LET i == Min(m) IN PipsFromAnchor(df, i) + SumPips(df, m \ {i})

\* the k-th smallest pip distance among the members m, by counting
KthPips(df, m, k) ==
    LET v == CHOOSE x \in {PipsFromAnchor(df, i) : i \in m} :
                 /\ Cardinality({i \in m : PipsFromAnchor(df, i) < x}) < k
                 /\ Cardinality({i \in m : PipsFromAnchor(df, i) <= x}) >= k
    IN v

\* one row per signal, in ascending order of the ids, with the trade count
PerSignal(metric, df) ==
    /\ {metric[k]["Signal Group"] : k \in DOMAIN metric} = SignalIds(df)
    /\ \A k, l \in DOMAIN metric :
          k < l => metric[k]["Signal Group"] < metric[l]["Signal Group"]
    /\ \A k \in DOMAIN metric :
          metric[k]["Trade Count"] = Cardinality(Members(df, metric[k]["Signal Group"]))

\* C9: for every signal, calculate_mean_pips_away and calculate_median_pips_away
\* report the trade count and the mean and the median of
\* (open price - anchor price) * 10000 over the trades of the signal, the
\* anchor being the earliest-opened trade of the signal as the grouper ordered
\* them; both are 0 for a signal of one trade.
C9_PipsAway ==
    LET g == trade_agg_data
    IN /\ pc \in {"mean", "median"} =>
             LET mean == results["mean_pips_away_df"]
             IN /\ PerSignal(mean, g)
                /\ \A k \in DOMAIN mean :
                      LET m == Members(g, mean[k]["Signal Group"])
                          v == mean[k]["Mean Pips Away"]
                      IN /\ \A j \in m :
                               g[Min(m)]["Open DateTime"] <= g[j]["Open DateTime"]
                         /\ v.den > 0
                         /\ v.num * Cardinality(m) = v.den * SumPips(g, m)
                         /\ Cardinality(m) = 1 => v = [num |-> 0, den |-> 1]
       /\ pc = "median" =>
             LET median == results["median_pips_away_df"]
             IN /\ PerSignal(median, g)
                /\ \A k \in DOMAIN median :
                      LET m == Members(g, median[k]["Signal Group"])
                          n == Cardinality(m)
                          v == median[k]["Median Pips Away"]
                      IN /\ v.den > 0
                         /\ 2 * v.num = v.den * (KthPips(g, m, (n + 1) \div 2)
                                                 + KthPips(g, m, n \div 2 + 1))
                         /\ n = 1 => v = [num |-> 0, den |-> 1]

\* a signal of three trades whose mean and median pip distances differ and are
\* not 0
C9_Witness ==
    /\ pc = "median"
    /\ \E k \in DOMAIN results["mean_pips_away_df"] :
          /\ results["mean_pips_away_df"][k]["Trade Count"] = 3
          /\ results["mean_pips_away_df"][k]["Mean Pips Away"].num # 0
          /\ results["median_pips_away_df"][k]["Median Pips Away"].num # 0
          /\ results["mean_pips_away_df"][k]["Mean Pips Away"]
                # results["median_pips_away_df"][k]["Median Pips Away"]

\* a signal of one trade beside a signal of two, mean and median 0 for the one
C9_WitnessSingle ==
    /\ pc = "median"
    /\ \E k, l \in DOMAIN results["mean_pips_away_df"] :
          /\ results["mean_pips_away_df"][k]["Trade Count"] = 1
          /\ results["mean_pips_away_df"][k]["Mean Pips Away"].num = 0
          /\ results["median_pips_away_df"][k]["Median Pips Away"].num = 0
          /\ results["mean_pips_away_df"][l]["Trade Count"] = 2
          /\ results["mean_pips_away_df"][l]["Mean Pips Away"].num # 0

-----------------------------------------------------------------------------
(* Daily profits: C10 (SpecDaily).                                         *)

\* the trades that close on day d: from its midnight to before the next
ClosingOn(df, d) ==
    {i \in DOMAIN df : /\ d * 1440 <= df[i]["Close DateTime"]
                       /\ df[i]["Close DateTime"] < (d + 1) * 1440}

RECURSIVE SumProfit(_, _)
SumProfit(df, m) ==
    IF m = {} THEN 0
    ELSE LET i == Min(m) IN df[i]["Profit"] + SumProfit(df, m \ {i})

\* C10: calculate_daily_profits returns one row for every calendar date on
\* which some trade closes and no other row; the profit of the row is the sum
\* of the profits of the trades closing on that date (+50 and -20 give +30);
\* the rows add up to the profit of all trades.
C10_DailyProfits ==
    pc = "daily" =>
        LET g == trade_agg_data
            daily == results["daily_profits_df"]
        IN /\ \A d \in 0..(MaxDay + 1) :
                 Cardinality({k \in DOMAIN daily : daily[k]["Close Date"] = d * 1440})
                    = IF ClosingOn(g, d) = {} THEN 0 ELSE 1
           /\ \A k \in DOMAIN daily :
                 \E d \in 0..MaxDay :
                    /\ daily[k]["Close Date"] = d * 1440
                    /\ daily[k]["Profit"] = SumProfit(g, ClosingOn(g, d))
           /\ SumSeq(Col(daily, "Profit")) = SumProfit(g, DOMAIN g)

\* the example of C10: +50 and -20 on one date give one row with +30, beside
\* a row for another date
C10_Witness ==
    /\ pc = "daily"
    /\ Len(trade_agg_data) = 3
    /\ Len(results["daily_profits_df"]) = 2
    /\ \E i, j \in DOMAIN trade_agg_data :
          /\ trade_agg_data[i]["Profit"] = 50
          /\ trade_agg_data[j]["Profit"] = -20
          /\ trade_agg_data[i]["Close DateTime"] # trade_agg_data[j]["Close DateTime"]
          /\ ClosingOn(trade_agg_data, 0) = {i, j}
    /\ results["daily_profits_df"][1]["Profit"] = 30

-----------------------------------------------------------------------------
(* Maximum pip drawdown: C11, C12, C13 (SpecDrawdown).                     *)

\* the earliest-listed member of signal g
FirstOfSignal(df, g) == df[Min(Members(df, g))]

\* the positions of the candles whose timestamp lies in the closed interval
\* from the open time to the close time of a trade
WindowOf(trade, candles) ==
    {i \in DOMAIN candles :
        /\ trade["Open DateTime"] <= candles[i]["DateTime"]
        /\ candles[i]["DateTime"] <= trade["Close DateTime"]}

LowestLow(candles, w) ==
    CHOOSE x \in {candles[i]["Low"] : i \in w} : \A i \in w : x <= candles[i]["Low"]

HighestHigh(candles, w) ==
    CHOOSE x \in {candles[i]["High"] : i \in w} : \A i \in w : x >= candles[i]["High"]

\* the drawdown of one trade as the specification defines it
DrawdownOfTrade(trade, candles) ==
    LET w == WindowOf(trade, candles)
    IN IF w = {} THEN NaN
       ELSE IF trade["Type"] = "buy"
       THEN (LowestLow(candles, w) - trade["Opening Price"]) * 10000
       ELSE (trade["Opening Price"] - HighestHigh(candles, w)) * 10000

\* the row of a metric table that carries signal id g
RowOf(metric, g) == metric[CHOOSE k \in DOMAIN metric : metric[k]["Signal Group"] = g]

\* one row per signal, in ascending order of the ids
OneRowPerSignal(metric, df) ==
    /\ Len(metric) = Cardinality(SignalIds(df))
    /\ {metric[k]["Signal Group"] : k \in DOMAIN metric} = SignalIds(df)
    /\ \A k, l \in DOMAIN metric :
          k < l => metric[k]["Signal Group"] < metric[l]["Signal Group"]

\* C11: calculate_max_pip_drawdown returns one row per signal; the row of a
\* signal is computed from the first trade of the signal, which opens no
\* later than any other member: over the candles whose timestamp lies in the
\* closed interval [open time, close time] of that trade, the drawdown of a
\* long trade is (minimum Low - open price) * 10000 and that of a short trade
\* is (open price - maximum High) * 10000.
C11_FirstTradeDrawdown ==
    pc = "drawdown" =>
        LET g == trade_agg_data
            out == results["max_pip_drawdown_df"]
        IN /\ OneRowPerSignal(out, g)
           /\ \A id \in SignalIds(g) :
                 /\ \A i \in Members(g, id) :
                       FirstOfSignal(g, id)["Open DateTime"] <= g[i]["Open DateTime"]
                 /\ RowOf(out, id)["Max Pip Drawdown"]
                       = DrawdownOfTrade(FirstOfSignal(g, id), tf_ohlc_data)

\* a signal of two long trades: the first opens at price 3 and closes a
\* minute later, with two candles in its window whose lowest Low is 1; the
\* second opens at price 2 and has a different window; the drawdown of the
\* signal is (1 - 3) * 10000, that of the first trade and not of the second
C11_Witness ==
    /\ pc = "drawdown"
    /\ Len(trade_agg_data) = 2
    /\ SignalIds(trade_agg_data) = {1}
    /\ trade_agg_data[1]["Type"] = "buy"
    /\ trade_agg_data[1]["Opening Price"] = 3
    /\ trade_agg_data[2]["Opening Price"] = 2
    /\ trade_agg_data[1]["Open DateTime"] = 0
    /\ trade_agg_data[1]["Close DateTime"] = 1
    /\ Cardinality(WindowOf(trade_agg_data[1], tf_ohlc_data)) = 2
    /\ WindowOf(trade_agg_data[2], tf_ohlc_data)
          # WindowOf(trade_agg_data[1], tf_ohlc_data)
    /\ results["max_pip_drawdown_df"][1]["Max Pip Drawdown"] = -20000
    /\ DrawdownOfTrade(trade_agg_data[2], tf_ohlc_data) # -20000

\* the statement of C12 as first written: whenever the window of the first
\* trade of a signal holds a candle, the reported drawdown is a number that
\* is not positive
C12_NonPositive ==
    pc = "drawdown" =>
        \A id \in SignalIds(trade_agg_data) :
            WindowOf(FirstOfSignal(trade_agg_data, id), tf_ohlc_data) # {} =>
                /\ RowOf(results["max_pip_drawdown_df"], id)["Max Pip Drawdown"] # NaN
                /\ RowOf(results["max_pip_drawdown_df"], id)["Max Pip Drawdown"] <= 0

\* some candle of the window reaches the open price of the trade against its
\* direction: a Low at or under it for a long trade, a High at or over it for
\* a short trade
ReachesOpenPrice(trade, candles) ==
    \E i \in WindowOf(trade, candles) :
        IF trade["Type"] = "buy"
        THEN candles[i]["Low"] <= trade["Opening Price"]
        ELSE candles[i]["High"] >= trade["Opening Price"]

\* C12: whenever the window of the first trade of a signal holds a candle,
\* the reported drawdown is a number; it is not positive exactly when some
\* candle of the window reaches the open price against the direction of the
\* trade, and it is positive when every candle of the window lies on the
\* favourable side of the open price.
C12_SignOfDrawdown ==
    pc = "drawdown" =>
        \A id \in SignalIds(trade_agg_data) :
            LET trade == FirstOfSignal(trade_agg_data, id)
                drawdown == RowOf(results["max_pip_drawdown_df"], id)["Max Pip Drawdown"]
            IN WindowOf(trade, tf_ohlc_data) # {} =>
                  /\ drawdown # NaN
                  /\ (drawdown <= 0) <=> ReachesOpenPrice(trade, tf_ohlc_data)

\* a long and a short trade whose windows hold a candle each, both with a
\* positive drawdown
C12_Witness ==
    /\ pc = "drawdown"
    /\ \E a, b \in SignalIds(trade_agg_data) :
          /\ FirstOfSignal(trade_agg_data, a)["Type"] = "buy"
          /\ FirstOfSignal(trade_agg_data, b)["Type"] = "sell"
          /\ \A id \in {a, b} :
                /\ WindowOf(FirstOfSignal(trade_agg_data, id), tf_ohlc_data) # {}
                /\ RowOf(results["max_pip_drawdown_df"], id)["Max Pip Drawdown"] > 0

\* a grouped table without the trades of signal id
WithoutSignal(df, id) == SelectSeq(df, LAMBDA row : row["Signal Group"] # id)

\* C13: calculate_max_pip_drawdown returns a table with a row for every
\* signal also when a window is empty (the minimum and the maximum of no
\* candle are NaN, nothing is raised); a signal whose first trade has no
\* candle in its window gets the undefined drawdown NaN, and every other
\* signal gets the value the function returns for it on the table without the
\* trades of the empty-window signal.
C13_EmptyWindow ==
    /\ pc \in {"initial", "drawdown"}
    /\ pc = "drawdown" =>
          LET g == trade_agg_data
              out == results["max_pip_drawdown_df"]
          IN /\ OneRowPerSignal(out, g)
             /\ \A id \in SignalIds(g) :
                   WindowOf(FirstOfSignal(g, id), tf_ohlc_data) = {} =>
                      LET without ==
                            calculate_max_pip_drawdown(WithoutSignal(g, id), tf_ohlc_data)
                      IN /\ RowOf(out, id)["Max Pip Drawdown"] = NaN
                         /\ Len(without) = Len(out) - 1
                         /\ \A other \in SignalIds(g) \ {id} :
                               RowOf(without, other)["Max Pip Drawdown"]
                                  = RowOf(out, other)["Max Pip Drawdown"]

\* two signals: the window of the first trade of signal 1 holds no candle,
\* that of signal 2 holds one; the rows are NaN and a number
C13_Witness ==
    /\ pc = "drawdown"
    /\ SignalIds(trade_agg_data) = {1, 2}
    /\ tf_ohlc_data # <<>>
    /\ WindowOf(FirstOfSignal(trade_agg_data, 1), tf_ohlc_data) = {}
    /\ WindowOf(FirstOfSignal(trade_agg_data, 2), tf_ohlc_data) # {}
    /\ Len(results["max_pip_drawdown_df"]) = 2
    /\ results["max_pip_drawdown_df"][1]["Max Pip Drawdown"] = NaN
    /\ results["max_pip_drawdown_df"][2]["Max Pip Drawdown"] # NaN

-----------------------------------------------------------------------------
(* The tables during a run of main: C14 (Spec).                            *)

\* the positions of main at which group_trades_into_signals has returned
AfterGrouping ==
    {"grouped", "mean", "median", "daily", "volume", "trades", "initial",
     "drawdown", "chart", "charts", "averages", "done"}

\* a table the grouper can return for the table it was given
GrouperReturned(df) ==
    \E order \in SortOrders(arg_df, "Open DateTime") :
        df = group_trades_into_signals(arg_df, order)

\* C14: from the return of group_trades_into_signals on, the trade table of
\* main is the table the grouper returned, with its rows, its columns and
\* their values: no aggregation function changes the table it is given, so
\* every later function and the final st.table see that table; the candle
\* series stays the series that was loaded.
C14_TablesUnchanged ==
    /\ pc \in AfterGrouping =>
          /\ GrouperReturned(trade_agg_data)
          /\ tf_ohlc_data \in MainCandles
    /\ pc = "done" => GrouperReturned(results["displayed_table"])

-----------------------------------------------------------------------------
(* Computing and rendering in a run of main: C15 (Spec).                   *)

\* the metric tables and summary statistics of StreamLit.py:124-168
MetricResults ==
    {"mean_pips_away_df", "median_pips_away_df", "daily_profits_df",
     "daily_profit_mean", "daily_profit_median",
     "cumulative_volume_df", "volume_mean", "volume_median", "volume_max",
     "volume_min",
     "cumulative_trades_df", "trades_mean", "trades_median", "trades_max",
     "trades_min",
     "initial_trade_volume_df", "initial_volume_mean", "initial_volume_median",
     "initial_volume_max", "initial_volume_min",
     "max_pip_drawdown_df", "drawdown_mean", "drawdown_median", "drawdown_max",
     "drawdown_min"}

\* the results this run of main computes: the metrics, and the average
\* prices when the hedges are shown
ResultsOfRun ==
    MetricResults \cup
       (IF input_settings.ShowingHedges THEN {"average_price_data_df"} ELSE {})

\* the positions of a validated run at which a chart, a text or a table of
\* results has been rendered
RenderStages == {"chart", "charts", "averages", "done"}

\* the statement of C15 as first written: when the first output element of a
\* validated run is rendered, every result of the run has been computed
C15_AllBeforeRender ==
    pc \in RenderStages => ResultsOfRun \subseteq DOMAIN results

\* element e is rendered
Rendered(e) == \E i \in DOMAIN rendered : rendered[i] = e

\* C15: in a run of main that passes validation nothing but the page title
\* is rendered before the grouped table, the metrics and their summary
\* statistics are all computed; the average prices are the exception: they
\* are computed after the candlestick chart, the metric charts and the
\* statistics are rendered, right before their own table, and only when the
\* hedges are shown.
C15_MetricsBeforeRender ==
    /\ pc \in PipelineStages \ RenderStages => rendered = <<"title">>
    /\ pc \in RenderStages =>
          /\ MetricResults \subseteq DOMAIN results
          /\ trade_agg_data # <<>>
          /\ Rendered("plotly_chart: Trade Progress")
    /\ pc \in {"chart", "charts"} => "average_price_data_df" \notin DOMAIN results
    /\ pc \in {"averages", "done"} =>
          /\ \A i \in DOMAIN MetricElements : Rendered(MetricElements[i])
          /\ "average_price_data_df" \in DOMAIN results <=> input_settings.ShowingHedges
          /\ Rendered("table: average prices") <=> input_settings.ShowingHedges

\* a finished run that shows the hedges: the average prices were computed,
\* after the charts, and their table is the last but one element
C15_Witness ==
    /\ pc = "done"
    /\ input_settings.ShowingHedges
    /\ "average_price_data_df" \in DOMAIN results
    /\ Len(rendered) = 1 + 1 + Len(MetricElements) + 2
    /\ rendered[2] = "plotly_chart: Trade Progress"
    /\ rendered[Len(rendered) - 1] = "table: average prices"
    /\ rendered[Len(rendered)] = "table: trades"

=============================================================================
